---- MODULE Spec2Model ----
(***************************************************************************)
(* heare-auth: the in-memory key store (heare_auth/storage.py) and the     *)
(* HTTP handlers built on it (heare_auth/main.py).                         *)
(*                                                                         *)
(* The serving side is one process with one event loop: every handler is  *)
(* an `async def` whose body holds no await, so each handler runs from    *)
(* its first line to its last without another handler in between.  One    *)
(* action of this module is one whole handler.  The durable blob lives in *)
(* an object store that other writers change between handlers.            *)
(***************************************************************************)
EXTENDS Integers, Sequences, FiniteSets, TLC

VARIABLES
    blob,            \* the durable object at (bucket, key)
    storage_secret,  \* STORAGE_SECRET the store was constructed with
    keys_by_secret,  \* KeyStore.keys_by_secret: secret -> record
    keys_by_id,      \* KeyStore.keys_by_id: id -> record
    now,             \* datetime.now(timezone.utc), as an instant
    phase,           \* "init" | "serving" | "aborted" (lifespan)
    resp,            \* what the last call answered
    cli              \* the administrative command in flight (heare_auth/cli.py)

vars == <<blob, storage_secret, keys_by_secret, keys_by_id, now, phase, resp, cli>>

----------------------------------------------------------------------------
(* Bounds *)

\* Longest `keys` list a blob holds.
MaxKeys == 2
\* Last instant the clock reaches.
MaxTime == 2
\* Most headers a byte string carries one inside the other (_encrypt_data
\* applied to its own output).
MaxDepth == 2
\* Keys the administrator creates.
MaxCreated == 2

----------------------------------------------------------------------------
(* Values *)

\* A dictionary key that is not there (k["id"] raises KeyError, k.get gives None).
Absent == "<absent>"
\* storage_secret=None
NoSecret == "<none>"

\* expires_at, by the shape of the JSON value:
\*   absent   the record has no such key          null     JSON null
\*   empty    ""                                  zero     0 / false / [] / {}
\*   zulu     ISO 8601 ending in "Z"              offset   ISO 8601 with +hh:mm
\*   naive    ISO 8601 without any offset         nonISO   any other non-empty string
\*   number   a non-string that is truthy
\* t is the instant (zulu, offset) or the wall-clock reading (naive) written.
ExpiryForms ==
    {"absent", "null", "empty", "zero", "zulu", "offset", "naive", "nonISO", "number"}
Exp(form, t) == [form |-> form, t |-> t]
NoExpiry == Exp("absent", 0)

KeyRecord(id, secret, name, expires_at, metadata) ==
    [id |-> id, secret |-> secret, name |-> name,
     expires_at |-> expires_at, metadata |-> metadata]

\* Python's {} .
EmptyDict == << >>

\* No record.
NoKey == KeyRecord(Absent, Absent, Absent, NoExpiry, Absent)

\* cli: pc is where the command stands ("idle", "list", "load", "save",
\* "post1", "post2", "done"), secret its --storage-secret, refresh whether
\* --no-refresh was left out, arg the name or the key id, keys the list it
\* holds, key the record it made or removed, p1 and p2 what its two posts to
\* /refresh saw, out how it ended, warned whether it echoed a warning, made
\* how many key pairs have been generated so far.
NoCli ==
    [pc |-> "idle", cmd |-> "none", secret |-> NoSecret, refresh |-> FALSE,
     arg |-> "", keys |-> << >>, key |-> NoKey, p1 |-> "none", p2 |-> "none",
     out |-> "none", warned |-> FALSE, made |-> 0]

\* What a lookup or a call gives back.
NotFound == [kind |-> "none"]
Found(r) == [kind |-> "record", rec |-> r]
Raised(e) == [kind |-> "raise", error |-> e]

----------------------------------------------------------------------------
(* Durable blob *)

\* The Fernet key __init__ derives from a storage secret: sha256, then base64.
\* Equal secrets give equal keys, different secrets different keys.
DeriveFernet(secret) == [sha256_of |-> secret]
\* self.fernet = None
NoFernet == DeriveFernet(NoSecret)

\* The JSON text of a blob: "keys" (an object with a `keys` list), "nokeys" (an
\* object without it), "invalid" (not JSON).
Doc(json, keys) == [json |-> json, keys |-> keys]
KeysDoc(keys) == Doc("keys", keys)

\* A byte string, as the bucket holds it and as _encrypt_data and
\* _decrypt_data pass it around.  `encrypted` says the bytes start with
\* ENCRYPTION_HEADER.  If they do, what follows the header is a Fernet token:
\* enc_key is the key it was made with (NoFernet: no token any key opens) and
\* body the byte string it holds.  If they do not, body is the text itself.
Blob(encrypted, enc_key, body) ==
    [exists |-> TRUE, encrypted |-> encrypted, enc_key |-> enc_key, body |-> body]
PlainBlob(body) == Blob(FALSE, NoFernet, body)
\* The byte string a writer with envelope e = <<encrypted, key>> puts for the
\* JSON text doc.
Envelope(e, doc) == IF e[1] THEN Blob(TRUE, e[2], PlainBlob(doc)) ELSE PlainBlob(doc)
\* The JSON text inside b, under its envelope if it has one.
DocOf(b) == IF b.encrypted THEN b.body.body ELSE b.body
\* get_object answers NoSuchKey.
NoBlob == [exists |-> FALSE, encrypted |-> FALSE, enc_key |-> NoFernet,
           body |-> Doc("invalid", << >>)]

----------------------------------------------------------------------------
(* KeyStore: expiry evaluation and the two lookups *)

\* `if expires_at:` on key_data.get("expires_at")
Truthy(expires_at) == expires_at.form \notin {"absent", "null", "empty", "zero"}

\* expires_at.replace("Z", "+00:00") with the replacement left out.
ReplaceZDropped(expires_at) ==
    IF expires_at.form = "number" THEN Raised("AttributeError") ELSE Found(expires_at)

\* expires_at.replace("Z", "+00:00"): a non-string has no replace; a trailing Z
\* becomes the offset +00:00, which names the same instant.
ReplaceZ(expires_at) ==
    CASE expires_at.form = "number" -> Raised("AttributeError")
      [] expires_at.form = "zulu"   -> Found(Exp("offset", expires_at.t))
      [] OTHER                      -> Found(expires_at)

\* datetime.fromisoformat(text): an aware datetime for a text with an offset, a
\* naive one for a text without, ValueError for anything else ("Z" is not an
\* offset fromisoformat reads before Python 3.11, hence the replace above).
FromIsoFormat(text) ==
    CASE text.form = "offset" -> Found([aware |-> TRUE, t |-> text.t])
      [] text.form = "naive"  -> Found([aware |-> FALSE, t |-> text.t])
      [] OTHER                -> Raised("ValueError")

\* `now > expiry`, now being aware: comparing it with a naive datetime raises
\* TypeError.
NowAfter(t_now, expiry) ==
    IF expiry.aware THEN [kind |-> "bool", value |-> t_now > expiry.t]
    ELSE Raised("TypeError")

\* The body of `if expires_at:` in get_by_secret: "expired" (return None),
\* "valid" (fall through to return key_data; ValueError and AttributeError are
\* caught) or "raise" (any other exception leaves get_by_secret).
ExpiryCheck(expires_at, t_now) ==
    LET replaced == ReplaceZ(expires_at) IN
    IF replaced.kind = "raise" THEN "valid"
    ELSE LET parsed == FromIsoFormat(replaced.rec) IN
         IF parsed.kind = "raise" THEN "valid"
         ELSE LET cmp == NowAfter(t_now, parsed.rec) IN
              IF cmp.kind = "raise" THEN "raise"
              ELSE IF cmp.value THEN "expired" ELSE "valid"

\* get_by_secret with self.keys_by_secret[secret] in place of .get(secret).
GetBySecretSubscript(kbs, secret, t_now) ==
    IF secret \notin DOMAIN kbs THEN Raised("KeyError")
    ELSE IF ~Truthy(kbs[secret].expires_at) THEN Found(kbs[secret])
    ELSE LET chk == ExpiryCheck(kbs[secret].expires_at, t_now) IN
         CASE chk = "expired" -> NotFound
           [] chk = "raise"   -> Raised("TypeError")
           [] OTHER           -> Found(kbs[secret])

\* KeyStore.get_by_secret
GetBySecret(kbs, secret, t_now) ==
    IF secret \notin DOMAIN kbs THEN NotFound
    ELSE LET key_data == kbs[secret] IN
         IF ~Truthy(key_data.expires_at) THEN Found(key_data)
         ELSE LET chk == ExpiryCheck(key_data.expires_at, t_now) IN
              CASE chk = "expired" -> NotFound
                [] chk = "raise"   -> Raised("TypeError")
                [] OTHER           -> Found(key_data)

\* KeyStore.get_by_id: self.keys_by_id.get(key_id).  No expiry evaluation.
GetById(kbi, key_id) ==
    IF key_id \in DOMAIN kbi THEN Found(kbi[key_id]) ELSE NotFound

----------------------------------------------------------------------------
(* KeyStore: load_from_s3 *)

\* _decrypt_data that opens a token without checking its key.
DecryptDataUnauthenticated(raw, fernet) ==
    IF raw.encrypted THEN Found(raw.body) ELSE Found(raw)

\* _decrypt_data that, given a storage secret, takes no bytes without header.
DecryptDataStrict(raw, fernet) ==
    IF fernet = NoFernet
    THEN IF raw.encrypted
         THEN Raised("ValueError: Data is encrypted but no STORAGE_SECRET provided")
         ELSE Found(raw)
    ELSE IF raw.encrypted /\ raw.enc_key = fernet
         THEN Found(raw.body)
         ELSE Raised("ValueError: Failed to decrypt data - invalid STORAGE_SECRET")

\* _encrypt_data that returns its argument.
EncryptDataPlain(data, fernet) == data

\* KeyStore._decrypt_data: the bytes under the header, the bytes themselves
\* when they carry no header, or ValueError.
DecryptData(raw, fernet) ==
    IF raw.encrypted
    THEN IF fernet = NoFernet
         THEN Raised("ValueError: Data is encrypted but no STORAGE_SECRET provided")
         ELSE IF raw.enc_key = fernet
              THEN Found(raw.body)
              ELSE Raised("ValueError: Failed to decrypt data - invalid STORAGE_SECRET")
    ELSE Found(raw)

\* KeyStore._encrypt_data: header and Fernet token when a storage secret was
\* given, the bytes themselves otherwise.  (A token also carries a timestamp
\* and a random IV; decrypt reads neither.)
EncryptData(data, fernet) ==
    IF fernet # NoFernet THEN Blob(TRUE, fernet, data) ELSE data

\* json.loads(bytes): bytes that start with the header are not JSON.
JsonLoads(data) == IF data.encrypted THEN Doc("invalid", << >>) ELSE data.body

\* Whether some k["field"] of the comprehension raises KeyError.
LacksField(keys, field) == \E i \in DOMAIN keys : keys[i][field] = Absent

\* {k[field]: k for k in keys}: a later record replaces an earlier one with the
\* same key.
BuildIndex(keys, field) ==
    [v \in {keys[i][field] : i \in DOMAIN keys} |->
        keys[CHOOSE i \in DOMAIN keys :
                /\ keys[i][field] = v
                /\ \A j \in DOMAIN keys : keys[j][field] = v => j <= i]]

\* What a call of load_from_s3 leaves: how it ended, the two indices, the count.
LoadResult(outcome, kbs, kbi, count) ==
    [outcome |-> outcome, kbs |-> kbs, kbi |-> kbi, count |-> count]

\* The NoSuchKey handler with its two assignments left out.
OnNoSuchKeyKeep(kbs, kbi) == LoadResult("ok", kbs, kbi, 0)

\* load_from_s3, lines 112-116: get_object answered NoSuchKey.  Both indices
\* are set to {} and 0 is returned.
OnNoSuchKey(kbs, kbi) == LoadResult("ok", EmptyDict, EmptyDict, 0)

\* The count of a load as the number of secrets a lookup would now return.
LoadedCountUnexpired(kbs) ==
    Cardinality({secret \in DOMAIN kbs : GetBySecret(kbs, secret, now).kind = "record"})

\* load_from_s3, line 110: return len(self.keys_by_secret)
LoadedCount(kbs) == Cardinality(DOMAIN kbs)

\* KeyStore.load_from_s3, called with the indices kbs, kbi in place.  s3 is how
\* get_object goes: "ok", or a ClientError that is not NoSuchKey.
LoadFromS3(raw, s3, fernet, kbs, kbi) ==
    IF s3 # "ok" THEN LoadResult("ClientError", kbs, kbi, 0)
    ELSE IF ~raw.exists THEN OnNoSuchKey(kbs, kbi)
    ELSE LET decrypted == DecryptData(raw, fernet) IN
         IF decrypted.kind = "raise" THEN LoadResult("ValueError", kbs, kbi, 0)
         ELSE LET data == JsonLoads(decrypted.rec) IN
              IF data.json = "invalid" THEN LoadResult("JSONDecodeError", kbs, kbi, 0)
              ELSE IF data.json = "nokeys" THEN LoadResult("KeyError", kbs, kbi, 0)
              \* line 107: self.keys_by_secret = {k["secret"]: k ...}
              ELSE IF LacksField(data.keys, "secret")
                   THEN LoadResult("KeyError", kbs, kbi, 0)
              \* line 108: self.keys_by_id = {k["id"]: k ...}, keys_by_secret
              \* being assigned already
              ELSE IF LacksField(data.keys, "id")
                   THEN LoadResult("KeyError", BuildIndex(data.keys, "secret"), kbi, 0)
              ELSE LoadResult("ok", BuildIndex(data.keys, "secret"),
                              BuildIndex(data.keys, "id"),
                              LoadedCount(BuildIndex(data.keys, "secret")))

----------------------------------------------------------------------------
(* KeyStore: save_to_s3 *)

\* json.dumps({"keys": keys}, indent=2).encode('utf-8')
JsonDumps(keys) == PlainBlob(KeysDoc(keys))

\* save_to_s3 that reads the object first and appends to the list it holds.
SaveToS3Merge(keys, fernet) ==
    LET held == IF blob.exists /\ DocOf(blob).json = "keys" THEN DocOf(blob).keys
                ELSE << >>
    IN  EncryptData(JsonDumps(held \o keys), fernet)

\* KeyStore.save_to_s3: the bytes put_object writes over the object.
SaveToS3(keys, fernet) == EncryptData(JsonDumps(keys), fernet)

----------------------------------------------------------------------------
(* HTTP handlers (main.py) *)

\* request.client is None
NoClient == "<no client>"

\* "x-forwarded-for" header, already cut at its commas; << >> is no header.
\* request.headers.get("x-forwarded-for", "").split(",")[0].strip()
ForwardedFor(header) == IF header = << >> THEN "" ELSE header[1]

\* The condition of refresh's `if`: the request is turned away.
RefreshRejected(client_host, forwarded_for) ==
    /\ client_host \notin {"127.0.0.1", "localhost", NoClient}
    /\ forwarded_for \notin {"127.0.0.1", "localhost", ""}

NoResp == [op |-> "none"]

\* The handler wrote no log entry.
NoLog == [event |-> "none"]

\* verify, line 122: request.api_key[:4] if len(request.api_key) >= 4 else "***"
SecretPrefix(api_key) ==
    IF Len(api_key) >= 4 THEN SubSeq(api_key, 1, 4) ELSE "***"

\* POST /verify {api_key}: status, body and the entry the handler logs (its
\* user_agent field, which does not come from the key, left out).  An exception
\* that leaves the handler is answered 500 by the framework.
VerifyResponse(kbs, api_key, t_now) ==
    LET key_data == GetBySecret(kbs, api_key, t_now) IN
    CASE key_data.kind = "none" ->
           [op |-> "verify", api_key |-> api_key, status |-> 403,
            log |-> [event |-> "verification_failed",
                     secret_prefix |-> SecretPrefix(api_key)],
            body |-> [valid |-> FALSE, error |-> "Invalid API key"]]
      [] key_data.kind = "raise" ->
           [op |-> "verify", api_key |-> api_key, status |-> 500, log |-> NoLog,
            body |-> [error |-> key_data.error]]
      [] OTHER ->
           \* key_data["id"], key_data["name"]
           IF key_data.rec.id = Absent \/ key_data.rec.name = Absent
           THEN [op |-> "verify", api_key |-> api_key, status |-> 500, log |-> NoLog,
                 body |-> [error |-> "KeyError"]]
           ELSE [op |-> "verify", api_key |-> api_key, status |-> 200,
                 log |-> [event |-> "verification_success",
                          key_id |-> key_data.rec.id, key_name |-> key_data.rec.name],
                 body |-> [valid |-> TRUE, key_id |-> key_data.rec.id,
                           name |-> key_data.rec.name,
                           \* key_data.get("metadata", {})
                           metadata |-> IF key_data.rec.metadata = Absent
                                        THEN "{}" ELSE key_data.rec.metadata]]

\* A refresh that loads first and looks at the caller's address afterwards.
RejectRefreshAfterLoad ==
    LET r == LoadFromS3(blob, "ok", DeriveFernet(storage_secret),
                        keys_by_secret, keys_by_id) IN
    /\ keys_by_secret' = r.kbs
    /\ keys_by_id' = r.kbi
    /\ resp' = [op |-> "refresh", status |-> 403, fetched |-> TRUE,
                body |-> [error |-> "Refresh endpoint only accessible from localhost"]]

\* refresh, lines 190-203: the request is turned away before any load.
RejectRefresh ==
    /\ resp' = [op |-> "refresh", status |-> 403, fetched |-> FALSE,
                body |-> [error |-> "Refresh endpoint only accessible from localhost"]]
    /\ UNCHANGED <<keys_by_secret, keys_by_id>>

\* refresh, lines 205-237: load_from_s3, then 200 with the count or 500.
ReloadAndAnswer(s3) ==
    LET r == LoadFromS3(blob, s3, DeriveFernet(storage_secret),
                        keys_by_secret, keys_by_id) IN
    /\ keys_by_secret' = r.kbs
    /\ keys_by_id' = r.kbi
    /\ resp' = IF r.outcome = "ok"
               THEN [op |-> "refresh", status |-> 200, fetched |-> TRUE,
                     body |-> [success |-> TRUE, keys_loaded |-> r.count]]
               ELSE [op |-> "refresh", status |-> 500, fetched |-> TRUE,
                     body |-> [error |-> r.outcome]]

\* health answering with the count it computes.
HealthAnswerWithCount(kbs) ==
    LET keys_count == Cardinality(DOMAIN kbs) IN
    [op |-> "health", status |-> 200,
     body |-> [status |-> "ok", keys_count |-> keys_count]]

\* GET /health: keys_count = len(store.keys_by_secret) goes to the metrics
\* gauge only; the handler returns {"status": "ok"}.
HealthAnswer(kbs) ==
    LET keys_count == Cardinality(DOMAIN kbs) IN
    [op |-> "health", status |-> 200, body |-> [status |-> "ok"]]

\* lifespan that yields whether or not the load raised.
LifespanServesAnyway(outcome) == "serving"

\* lifespan, lines 48-74: `yield` is reached when load_from_s3 returned; an
\* exception is raised again, the application fails to start and the server
\* exits without serving.
Lifespan(outcome) == IF outcome = "ok" THEN "serving" ELSE "aborted"

----------------------------------------------------------------------------
(* Inputs *)

\* Records a blob of the service may hold.  RecC repeats RecA's id and RecB's
\* secret and carries an expiry without offset, as `create --expires-at
\* 2025-12-31T23:59:59` writes it; RecD lacks its id.
RecA == KeyRecord("k1", "s1", "alpha", NoExpiry, "{}")
RecB == KeyRecord("k2", "s2", "beta", Exp("zulu", 1), "{team:infra}")
RecC == KeyRecord("k1", "s2", "gamma", Exp("naive", 1), Absent)
RecD == KeyRecord(Absent, "s1", "delta", NoExpiry, "{}")
Records == {RecA, RecB, RecC, RecD}

\* Secrets a caller presents and ids a caller asks for; s3 and k3 are in no
\* record.
Secrets == {"s1", "s2", "s3"}
Ids == {"k1", "k2", "k3"}

StorageSecrets == {NoSecret, "A"}
\* How a writer of the service's bucket wraps a blob: plaintext, or encrypted
\* under the key of "A".
Envelopes == {<<FALSE, NoFernet>>, <<TRUE, DeriveFernet("A")>>}

Hosts == {"127.0.0.1", "10.0.0.5", NoClient}
ForwardedHeaders == {<< >>, <<"localhost">>, <<"10.0.0.5", "127.0.0.1">>}
S3Outcomes == {"ok", "AccessDenied"}

\* The blobs one write away from b: the object deleted, its body replaced by
\* an empty list, by an object without `keys` or by text that is not JSON, its
\* envelope changed, a record it does not hold appended, a record removed.
Edits(b) ==
    LET env == <<b.encrypted, b.enc_key>>
        keys == IF b.exists /\ DocOf(b).json = "keys" THEN DocOf(b).keys ELSE << >>
    IN  {NoBlob}
        \cup {Envelope(env, d) :
                d \in {KeysDoc(<< >>), Doc("nokeys", << >>), Doc("invalid", << >>)}}
        \cup (IF b.exists THEN {Envelope(e, DocOf(b)) : e \in Envelopes} ELSE {})
        \cup (IF b.exists /\ DocOf(b).json = "keys" /\ Len(keys) < MaxKeys
              THEN {Envelope(env, KeysDoc(Append(keys, r))) :
                      r \in Records \ {keys[i] : i \in DOMAIN keys}}
              ELSE {})
        \cup (IF keys # << >>
              THEN {Envelope(env,
                         KeysDoc(SubSeq(keys, 1, i - 1) \o SubSeq(keys, i + 1, Len(keys)))) :
                      i \in DOMAIN keys}
              ELSE {})

----------------------------------------------------------------------------
(* The service *)

\* Module import of main.py: KeyStore.__init__ leaves both indices empty.
Init ==
    /\ blob = NoBlob
    /\ storage_secret \in StorageSecrets
    /\ keys_by_secret = EmptyDict
    /\ keys_by_id = EmptyDict
    /\ now = 0
    /\ phase = "init"
    /\ resp = NoResp
    /\ cli = NoCli

\* Another writer changes the object in the bucket.
ExternalWrite(b) ==
    /\ b \in Edits(blob)
    /\ b # blob
    /\ blob' = b
    /\ UNCHANGED <<storage_secret, keys_by_secret, keys_by_id, now, phase, resp, cli>>

\* Time passes.
Tick ==
    /\ now < MaxTime
    /\ now' = now + 1
    /\ UNCHANGED <<blob, storage_secret, keys_by_secret, keys_by_id, phase, resp, cli>>

\* lifespan: the first load; a failure is raised again and the app never serves.
Startup(s3) ==
    /\ phase = "init"
    /\ LET r == LoadFromS3(blob, s3, DeriveFernet(storage_secret),
                           keys_by_secret, keys_by_id) IN
       /\ keys_by_secret' = r.kbs
       /\ keys_by_id' = r.kbi
       /\ phase' = Lifespan(r.outcome)
       /\ resp' = [op |-> "startup", outcome |-> r.outcome, count |-> r.count]
    /\ UNCHANGED <<blob, storage_secret, now, cli>>

\* verify that loads the object again before it looks the key up.
VerifyReloads(api_key) ==
    /\ phase = "serving"
    /\ LET r == LoadFromS3(blob, "ok", DeriveFernet(storage_secret),
                           keys_by_secret, keys_by_id) IN
       /\ keys_by_secret' = r.kbs
       /\ keys_by_id' = r.kbi
       /\ resp' = VerifyResponse(r.kbs, api_key, now)
    /\ UNCHANGED <<blob, storage_secret, now, phase, cli>>

\* POST /verify
Verify(api_key) ==
    /\ phase = "serving"
    /\ resp' = VerifyResponse(keys_by_secret, api_key, now)
    /\ UNCHANGED <<blob, storage_secret, keys_by_secret, keys_by_id, now, phase, cli>>

\* GET /health
Health ==
    /\ phase = "serving"
    /\ resp' = HealthAnswer(keys_by_secret)
    /\ UNCHANGED <<blob, storage_secret, keys_by_secret, keys_by_id, now, phase, cli>>

\* The refresh handler, whoever sent the request.
RefreshHandler(client_host, header) ==
    /\ phase = "serving"
    /\ IF RefreshRejected(client_host, ForwardedFor(header))
       THEN RejectRefresh
       ELSE \E s3 \in S3Outcomes : ReloadAndAnswer(s3)
    /\ UNCHANGED <<blob, storage_secret, now, phase>>

\* POST /refresh
Refresh(client_host, header) ==
    /\ RefreshHandler(client_host, header)
    /\ UNCHANGED cli

Next ==
    \/ \E b \in Edits(blob) : ExternalWrite(b)
    \/ Tick
    \/ \E s3 \in S3Outcomes : Startup(s3)
    \/ \E api_key \in Secrets : Verify(api_key)
    \/ Health
    \/ \E client_host \in Hosts, header \in ForwardedHeaders :
          Refresh(client_host, header)

Spec == Init /\ [][Next]_vars

----------------------------------------------------------------------------
(* The KeyStore called directly, as the tests and the CLI's load_keys do *)

\* One record per shape of expires_at under id k1 and secret s1, a second key,
\* two records that repeat an id or a secret, and one that lacks its secret.
IsTimestamp(form) == form \in {"zulu", "offset", "naive"}
StoreRecords ==
    {KeyRecord("k1", "s1", "alpha", Exp(form, IF IsTimestamp(form) THEN 1 ELSE 0), "{}") :
        form \in ExpiryForms}
    \cup {KeyRecord("k2", "s2", "beta", NoExpiry, "{team:infra}"),
          KeyRecord("k1", "s2", "gamma", NoExpiry, "{}"),
          KeyRecord("k2", "s1", "delta", Exp("offset", 1), "{}"),
          KeyRecord("k3", Absent, "epsilon", NoExpiry, "{}")}

\* Lists of at most n records of S, none twice.
ListsOf(S, n) ==
    {keys \in UNION {[1..k -> S] : k \in 0..n} :
        \A i, j \in DOMAIN keys : keys[i] = keys[j] => i = j}

StoreBlobs == {NoBlob} \cup {PlainBlob(KeysDoc(keys)) : keys \in ListsOf(StoreRecords, MaxKeys)}

\* KeyStore(bucket, key) over a bucket that holds any of StoreBlobs.
InitStore ==
    /\ blob \in StoreBlobs
    /\ storage_secret = NoSecret
    /\ keys_by_secret = EmptyDict
    /\ keys_by_id = EmptyDict
    /\ now = 0
    /\ phase = "init"
    /\ resp = NoResp
    /\ cli = NoCli

\* store.load_from_s3()
CallLoadFromS3(s3) ==
    LET r == LoadFromS3(blob, s3, DeriveFernet(storage_secret),
                        keys_by_secret, keys_by_id) IN
    /\ keys_by_secret' = r.kbs
    /\ keys_by_id' = r.kbi
    /\ resp' = [op |-> "load_from_s3", outcome |-> r.outcome, count |-> r.count]
    /\ UNCHANGED <<blob, storage_secret, now, phase, cli>>

\* store.get_by_secret(secret)
CallGetBySecret(secret) ==
    /\ resp' = [op |-> "get_by_secret", arg |-> secret,
                result |-> GetBySecret(keys_by_secret, secret, now)]
    /\ UNCHANGED <<blob, storage_secret, keys_by_secret, keys_by_id, now, phase, cli>>

\* store.get_by_id(key_id)
CallGetById(key_id) ==
    /\ resp' = [op |-> "get_by_id", arg |-> key_id,
                result |-> GetById(keys_by_id, key_id)]
    /\ UNCHANGED <<blob, storage_secret, keys_by_secret, keys_by_id, now, phase, cli>>

NextStore ==
    \/ \E s3 \in S3Outcomes : CallLoadFromS3(s3)
    \/ \E secret \in Secrets : CallGetBySecret(secret)
    \/ \E key_id \in Ids : CallGetById(key_id)
    \/ Tick

SpecStore == InitStore /\ [][NextStore]_vars

----------------------------------------------------------------------------
(* _encrypt_data and _decrypt_data called directly, by stores constructed with
   different storage secrets *)

CodecSecrets == {NoSecret, "A", "B"}

\* Byte strings handed to the two functions: JSON texts, text that is not JSON,
\* and bytes that start with the header without a token behind it.
CodecInputs ==
    {PlainBlob(d) : d \in {KeysDoc(<< >>), KeysDoc(<<RecA>>), KeysDoc(<<RecA, RecB>>),
                           Doc("nokeys", << >>), Doc("invalid", << >>)}}
    \cup {Blob(TRUE, NoFernet, PlainBlob(Doc("invalid", << >>)))}

\* How many headers lie one inside the other in data.
RECURSIVE Depth(_)
Depth(data) == IF data.encrypted THEN 1 + Depth(data.body) ELSE 0

InitCodec ==
    /\ blob \in CodecInputs
    /\ storage_secret \in CodecSecrets
    /\ keys_by_secret = EmptyDict
    /\ keys_by_id = EmptyDict
    /\ now = 0
    /\ phase = "init"
    /\ resp = NoResp
    /\ cli = NoCli

\* KeyStore(bucket, key, storage_secret=secret): another store takes the bytes.
Construct(secret) ==
    /\ secret # storage_secret
    /\ storage_secret' = secret
    /\ UNCHANGED <<blob, keys_by_secret, keys_by_id, now, phase, resp, cli>>

\* store._encrypt_data(blob); the bytes at hand become its output.
CallEncryptData ==
    /\ Depth(blob) < MaxDepth
    /\ blob' = EncryptData(blob, DeriveFernet(storage_secret))
    /\ resp' = [op |-> "_encrypt_data", arg |-> blob, result |-> Found(blob')]
    /\ UNCHANGED <<storage_secret, keys_by_secret, keys_by_id, now, phase, cli>>

\* store._decrypt_data(blob); the bytes at hand become its output, if any.
CallDecryptData ==
    LET r == DecryptData(blob, DeriveFernet(storage_secret)) IN
    /\ resp' = [op |-> "_decrypt_data", arg |-> blob, result |-> r]
    /\ blob' = IF r.kind = "record" THEN r.rec ELSE blob
    /\ UNCHANGED <<storage_secret, keys_by_secret, keys_by_id, now, phase, cli>>

NextCodec ==
    \/ \E secret \in CodecSecrets : Construct(secret)
    \/ CallEncryptData
    \/ CallDecryptData

SpecCodec == InitCodec /\ [][NextCodec]_vars

----------------------------------------------------------------------------
(* save_to_s3 and load_from_s3 called on one store, over a bucket that holds
   anything *)

\* What the bucket holds before the first save: nothing, text that is not
\* JSON, lists written without encryption or under the keys of "A" and "B".
PriorBlobs ==
    {NoBlob, PlainBlob(Doc("invalid", << >>)), PlainBlob(KeysDoc(<<RecA, RecB>>)),
     PlainBlob(KeysDoc(<<RecD>>)),
     Envelope(<<TRUE, DeriveFernet("A")>>, KeysDoc(<<RecB>>)),
     Envelope(<<TRUE, DeriveFernet("B")>>, KeysDoc(<<RecA>>))}

\* Records handed to save_to_s3: each has its id and its secret, as every
\* record the CLI passes has; RecC repeats an id and a secret.
SavedRecords == {RecA, RecB, RecC}

InitSave ==
    /\ blob \in PriorBlobs
    /\ storage_secret \in StorageSecrets
    /\ keys_by_secret = EmptyDict
    /\ keys_by_id = EmptyDict
    /\ now = 0
    /\ phase = "init"
    /\ resp = NoResp
    /\ cli = NoCli

\* store.save_to_s3(keys); s3 is how put_object goes.
CallSaveToS3(keys, s3) ==
    /\ blob' = IF s3 = "ok" THEN SaveToS3(keys, DeriveFernet(storage_secret)) ELSE blob
    /\ resp' = [op |-> "save_to_s3", arg |-> keys,
                outcome |-> IF s3 = "ok" THEN "ok" ELSE "ClientError"]
    /\ UNCHANGED <<storage_secret, keys_by_secret, keys_by_id, now, phase, cli>>

NextSave ==
    \/ \E keys \in ListsOf(SavedRecords, MaxKeys), s3 \in S3Outcomes :
          CallSaveToS3(keys, s3)
    \/ \E s3 \in S3Outcomes : CallLoadFromS3(s3)

SpecSave == InitSave /\ [][NextSave]_vars

----------------------------------------------------------------------------
(* One store read and written: the service's endpoints that read, the
   KeyStore's lookups, and save_to_s3 and load_from_s3 in between *)

\* KeyStore.get_all_keys: list(self.keys_by_id.values()), as the set of its
\* records.
IndexValues(kbi) == {kbi[k] : k \in DOMAIN kbi}

\* store.get_all_keys()
CallGetAllKeys ==
    /\ resp' = [op |-> "get_all_keys", result |-> IndexValues(keys_by_id)]
    /\ UNCHANGED <<blob, storage_secret, keys_by_secret, keys_by_id, now, phase, cli>>

NextReads ==
    \/ \E keys \in ListsOf(SavedRecords, MaxKeys), s3 \in S3Outcomes :
          CallSaveToS3(keys, s3)
    \/ \E s3 \in S3Outcomes : CallLoadFromS3(s3)
    \/ \E s3 \in S3Outcomes : Startup(s3)
    \/ \E api_key \in Secrets : Verify(api_key)
    \/ Health
    \/ \E secret \in Secrets : CallGetBySecret(secret)
    \/ \E key_id \in Ids : CallGetById(key_id)
    \/ CallGetAllKeys
    \/ Tick

SpecReads == InitSave /\ [][NextReads]_vars

----------------------------------------------------------------------------
(* /verify as its log shows it: keys of every length from none to seven
   characters presented to a service whose object holds secrets of four, five
   and seven characters *)

\* LogB expires at instant 1.
LogA == KeyRecord("key_a", "sec_a", "alpha", NoExpiry, "{}")
LogB == KeyRecord("key_b", "abcd", "beta", Exp("zulu", 1), "{}")
LogC == KeyRecord("key_c", "sec_abc", "gamma", Exp("null", 0), Absent)
LogRecords == {LogA, LogB, LogC}

\* What callers present: the three secrets, and strings that are no secret.
PresentedKeys == {"", "a", "ab", "abc", "abcd", "abcx", "sec_a", "sec_b", "sec_abc"}

InitLog ==
    /\ blob \in {NoBlob} \cup {PlainBlob(KeysDoc(keys)) : keys \in ListsOf(LogRecords, MaxKeys)}
    /\ storage_secret = NoSecret
    /\ keys_by_secret = EmptyDict
    /\ keys_by_id = EmptyDict
    /\ now = 0
    /\ phase = "init"
    /\ resp = NoResp
    /\ cli = NoCli

NextLog ==
    \/ \E s3 \in S3Outcomes : Startup(s3)
    \/ \E api_key \in PresentedKeys : Verify(api_key)
    \/ Tick

SpecLog == InitLog /\ [][NextLog]_vars

----------------------------------------------------------------------------
(* The administrative command line (cli.py), the bucket it writes and the
   service it asks to refresh.  A command is a process of its own: it reads
   the object, writes it and posts to /refresh in separate steps, and the
   service answers other requests in between.  Commands run one at a time. *)

\* The n-th id and the n-th secret ids.new hands out; none twice.
KeyIds == <<"k1", "k2", "k3", "k4">>
KeySecrets == <<"s1", "s2", "s3", "s4">>
\* generate_key_pair handing out the first pair again.
GenerateKeyPairRepeats(n) == <<KeyIds[1], KeySecrets[1]>>

\* generate_key_pair: (ids.new("key"), ids.new("sec", entropy=51)), the n-th
\* call of the library's generator.
GenerateKeyPair(n) == <<KeyIds[n], KeySecrets[n]>>

\* CLI.create, lines 116-125: the record of the n-th key; expires_at is None.
NewKey(n, name, metadata) ==
    KeyRecord(GenerateKeyPair(n)[1], GenerateKeyPair(n)[2], name, Exp("null", 0), metadata)

\* The ids of keys in the order a dict built from them holds its entries: by
\* the first record with each id.
RECURSIVE InsertionOrder(_)
InsertionOrder(keys) ==
    IF keys = << >> THEN << >>
    ELSE LET front == SubSeq(keys, 1, Len(keys) - 1)
             last == keys[Len(keys)]
         IN  IF \E i \in DOMAIN front : front[i].id = last.id
             THEN InsertionOrder(front)
             ELSE Append(InsertionOrder(front), last.id)

\* KeyStore.get_all_keys of a store that has loaded `keys`:
\* list(self.keys_by_id.values()).
GetAllKeys(keys) ==
    [i \in DOMAIN InsertionOrder(keys) |-> BuildIndex(keys, "id")[InsertionOrder(keys)[i]]]

\* load_keys that takes an object it cannot load for an empty list.
LoadKeysSwallows(raw, s3, secret) ==
    LET r == LoadFromS3(raw, s3, DeriveFernet(secret), EmptyDict, EmptyDict) IN
    IF r.outcome # "ok" \/ ~raw.exists THEN Found(<< >>)
    ELSE Found(GetAllKeys(JsonLoads(DecryptData(raw, DeriveFernet(secret)).rec).keys))

\* CLI.load_keys: a new KeyStore with the command's storage secret loads the
\* object and hands out get_all_keys(); an exception of the load goes up.
LoadKeys(raw, s3, secret) ==
    LET r == LoadFromS3(raw, s3, DeriveFernet(secret), EmptyDict, EmptyDict) IN
    IF r.outcome # "ok" THEN Raised(r.outcome)
    ELSE IF ~raw.exists THEN Found(<< >>)
    ELSE Found(GetAllKeys(JsonLoads(DecryptData(raw, DeriveFernet(secret)).rec).keys))

\* CLI.delete, line 175, keeping the target and dropping the others.
DeleteFilterInverted(keys, key_id) ==
    SelectSeq(keys, LAMBDA k : k.id = key_id)

\* CLI.delete, line 175: [k for k in keys if k["id"] != key_id]
DeleteFilter(keys, key_id) ==
    SelectSeq(keys, LAMBDA k : k.id # key_id)

\* CLI.create, line 127, with the new record in place of the list.
CreateAppendOverwrites(keys, new_key) == <<new_key>>

\* CLI.create, line 127: keys.append(new_key)
CreateAppend(keys, new_key) == Append(keys, new_key)

\* The second refresh of a command, with every failure an error.
Post2OutcomeFatal(seen) == IF seen = "200" THEN "ok" ELSE "error"

\* create / delete (command), the try block around the second refresh: any
\* failure is caught and echoed as a warning; the command goes on.
Post2Outcome(seen) == "ok"

AdminSecrets == {KeySecrets[n] : n \in 1..(MaxCreated + 1)}
AdminIds == {KeyIds[n] : n \in 1..(MaxCreated + 1)}
Names == {"ci-bot"}

\* The command ends here: exit 1 after "Error: ..." or 0 after "Cancelled.".
CliEnds(out) == [cli EXCEPT !.pc = "done", !.out = out, !.keys = << >>]

\* heare-auth create --name arg / heare-auth delete arg is started.
CliStart(cmd, secret, refresh, arg) ==
    /\ cli.pc \in {"idle", "done"}
    /\ cmd = "create" => (arg \in Names /\ cli.made < MaxCreated)
    /\ cmd = "delete" => arg \notin Names
    /\ cli' = [NoCli EXCEPT !.pc = IF cmd = "create" THEN "load" ELSE "list",
                            !.cmd = cmd, !.secret = secret, !.refresh = refresh,
                            !.arg = arg, !.made = cli.made]
    /\ UNCHANGED <<blob, storage_secret, keys_by_secret, keys_by_id, now, phase, resp>>

\* delete (command), lines 371-381: list_keys, the key is looked up and the
\* administrator asked to confirm.
CliList(s3, confirmed) ==
    /\ cli.pc = "list"
    /\ LET r == LoadKeys(blob, s3, cli.secret) IN
       cli' = IF r.kind = "raise" THEN CliEnds("error")
              ELSE IF \A i \in DOMAIN r.rec : r.rec[i].id # cli.arg THEN CliEnds("error")
              ELSE IF ~confirmed THEN CliEnds("cancelled")
              ELSE [cli EXCEPT !.pc = "load"]
    /\ UNCHANGED <<blob, storage_secret, keys_by_secret, keys_by_id, now, phase, resp>>

\* CLI.create, lines 111-127, and CLI.delete, lines 162-175: load_keys, then
\* the list to write is made.
CliLoad(s3) ==
    /\ cli.pc = "load"
    /\ LET r == LoadKeys(blob, s3, cli.secret) IN
       cli' = IF r.kind = "raise" THEN CliEnds("error")
              ELSE IF cli.cmd = "create"
              THEN LET new_key == NewKey(cli.made + 1, cli.arg, "{team:infra}") IN
                   [cli EXCEPT !.pc = "save", !.made = cli.made + 1, !.key = new_key,
                               !.keys = CreateAppend(r.rec, new_key)]
              ELSE IF \A i \in DOMAIN r.rec : r.rec[i].id # cli.arg THEN CliEnds("error")
              ELSE [cli EXCEPT !.pc = "save",
                               !.key = r.rec[CHOOSE i \in DOMAIN r.rec :
                                               /\ r.rec[i].id = cli.arg
                                               /\ \A j \in 1..(i - 1) : r.rec[j].id # cli.arg],
                               !.keys = DeleteFilter(r.rec, cli.arg)]
    /\ UNCHANGED <<blob, storage_secret, keys_by_secret, keys_by_id, now, phase, resp>>

\* CLI.save_keys: a new KeyStore with the command's storage secret writes the
\* list; an exception of put_object ends the command with an error.
CliSave(s3) ==
    /\ cli.pc = "save"
    /\ IF s3 = "ok"
       THEN /\ blob' = SaveToS3(cli.keys, DeriveFernet(cli.secret))
            /\ cli' = IF cli.refresh THEN [cli EXCEPT !.pc = "post1"]
                      ELSE [cli EXCEPT !.pc = "done", !.out = "ok"]
       ELSE /\ blob' = blob
            /\ cli' = CliEnds("error")
    /\ UNCHANGED <<storage_secret, keys_by_secret, keys_by_id, now, phase, resp>>

\* What the command makes of a post to /refresh that saw `seen`: the post of
\* CLI.create / CLI.delete warns on an exception only, the post of the command
\* (raise_for_status) on every failure.
AfterPost(seen) ==
    IF cli.pc = "post1"
    THEN [cli EXCEPT !.pc = "post2", !.p1 = seen,
                     !.warned = seen \in {"ConnectionError", "Timeout"}]
    ELSE [cli EXCEPT !.pc = "done", !.p2 = seen, !.out = Post2Outcome(seen),
                     !.warned = cli.warned \/ seen # "200"]

\* requests.post(refresh_url, timeout=5) does not get through to the service.
CliPostFails ==
    /\ cli.pc \in {"post1", "post2"}
    /\ cli' = AfterPost("ConnectionError")
    /\ UNCHANGED <<blob, storage_secret, keys_by_secret, keys_by_id, now, phase, resp>>

\* requests.post(refresh_url, timeout=5) gets through: the service runs its
\* refresh handler; the command sees the answer, or times out waiting for it.
CliPostReaches(client_host, header, timed_out) ==
    /\ cli.pc \in {"post1", "post2"}
    /\ RefreshHandler(client_host, header)
    /\ cli' = AfterPost(IF timed_out THEN "Timeout"
                        ELSE IF resp'.status = 200 THEN "200"
                        ELSE IF resp'.status = 403 THEN "403" ELSE "500")

InitAdmin ==
    /\ blob = NoBlob
    /\ storage_secret \in StorageSecrets
    /\ keys_by_secret = EmptyDict
    /\ keys_by_id = EmptyDict
    /\ now = 0
    /\ phase = "init"
    /\ resp = NoResp
    /\ cli = NoCli

NextAdmin ==
    \/ \E cmd \in {"create", "delete"}, secret \in StorageSecrets,
          refresh \in BOOLEAN, arg \in Names \cup AdminIds :
          CliStart(cmd, secret, refresh, arg)
    \/ \E s3 \in S3Outcomes, confirmed \in BOOLEAN : CliList(s3, confirmed)
    \/ \E s3 \in S3Outcomes : CliLoad(s3)
    \/ \E s3 \in S3Outcomes : CliSave(s3)
    \/ CliPostFails
    \/ \E client_host \in Hosts, header \in ForwardedHeaders, timed_out \in BOOLEAN :
          CliPostReaches(client_host, header, timed_out)
    \/ \E s3 \in S3Outcomes : Startup(s3)
    \/ \E api_key \in AdminSecrets : Verify(api_key)
    \/ \E client_host \in Hosts, header \in ForwardedHeaders :
          Refresh(client_host, header)

SpecAdmin == InitAdmin /\ [][NextAdmin]_vars

----------------------------------------------------------------------------
(* The command line alone, over a bucket whose object was written before by
   hand or by another tool; no service listens at the refresh URL. *)

\* Records of such an object: LegB repeats the id of LegA.
LegA == KeyRecord("k9", "s9", "legacy", NoExpiry, "{}")
LegB == KeyRecord("k9", "s8", "legacy-copy", NoExpiry, "{}")
LegC == KeyRecord("k8", "s7", "other", Exp("zulu", 1), Absent)
LegacyIds == {"k8", "k9"}

LegacyBlobs ==
    {NoBlob}
    \cup {Envelope(e, KeysDoc(keys)) :
            e \in Envelopes,
            keys \in {<<LegA>>, <<LegA, LegC>>, <<LegA, LegA>>, <<LegA, LegB>>,
                      <<LegA, LegC, LegB>>}}

InitCli ==
    /\ blob \in LegacyBlobs
    /\ storage_secret = NoSecret
    /\ keys_by_secret = EmptyDict
    /\ keys_by_id = EmptyDict
    /\ now = 0
    /\ phase = "init"
    /\ resp = NoResp
    /\ cli = NoCli

NextCli ==
    \/ \E cmd \in {"create", "delete"}, secret \in StorageSecrets,
          refresh \in BOOLEAN, arg \in Names \cup AdminIds \cup LegacyIds :
          CliStart(cmd, secret, refresh, arg)
    \/ \E s3 \in S3Outcomes, confirmed \in BOOLEAN : CliList(s3, confirmed)
    \/ \E s3 \in S3Outcomes : CliLoad(s3)
    \/ \E s3 \in S3Outcomes : CliSave(s3)
    \/ CliPostFails

SpecCli == InitCli /\ [][NextCli]_vars

----------------------------------------------------------------------------
(* Two administrators at once: each runs one CLI.create or CLI.delete against
   the same object, its load_keys and its save_keys being separate steps with
   the other's steps in between.  Here cli holds one record per administrator:
   pc ("idle", "load", "save", "done"), cmd, arg, read (the list load_keys
   returned), keys (the list handed to save_keys), key (the record made or
   removed) and out. *)

Admins == {1, 2}

NoAdmin ==
    [pc |-> "idle", cmd |-> "none", arg |-> "", read |-> << >>, keys |-> << >>,
     key |-> NoKey, out |-> "none"]

\* Calls of generate_key_pair so far.
PairsMade == Cardinality({q \in Admins : cli[q].cmd = "create" /\ cli[q].key # NoKey})

\* The operation of p ends with an exception.
AdminFails(p) == [cli EXCEPT ![p].pc = "done", ![p].out = "error"]

InitTwoAdmins ==
    /\ blob \in {NoBlob, PlainBlob(KeysDoc(<<LegA, LegC>>))}
    /\ storage_secret = NoSecret
    /\ keys_by_secret = EmptyDict
    /\ keys_by_id = EmptyDict
    /\ now = 0
    /\ phase = "init"
    /\ resp = NoResp
    /\ cli = [p \in Admins |-> NoAdmin]

\* Administrator p calls CLI.create(name=arg, ...) or CLI.delete(key_id=arg, ...),
\* without refresh URL.
AdminStart(p, cmd, arg) ==
    /\ cli[p].pc = "idle"
    /\ cmd = "create" => arg \in Names
    /\ cmd = "delete" => arg \in LegacyIds
    /\ cli' = [cli EXCEPT ![p] = [NoAdmin EXCEPT !.pc = "load", !.cmd = cmd, !.arg = arg]]
    /\ UNCHANGED <<blob, storage_secret, keys_by_secret, keys_by_id, now, phase, resp>>

\* CLI.create, lines 111-127, and CLI.delete, lines 162-175, of p: load_keys,
\* then the list to write is made.
AdminLoad(p, s3) ==
    /\ cli[p].pc = "load"
    /\ LET r == LoadKeys(blob, s3, NoSecret) IN
       cli' = IF r.kind = "raise" THEN AdminFails(p)
              ELSE IF cli[p].cmd = "create"
              THEN LET new_key == NewKey(PairsMade + 1, cli[p].arg, "{}") IN
                   [cli EXCEPT ![p].pc = "save", ![p].read = r.rec, ![p].key = new_key,
                               ![p].keys = CreateAppend(r.rec, new_key)]
              ELSE IF \A i \in DOMAIN r.rec : r.rec[i].id # cli[p].arg THEN AdminFails(p)
              ELSE [cli EXCEPT ![p].pc = "save", ![p].read = r.rec,
                               ![p].key = r.rec[CHOOSE i \in DOMAIN r.rec :
                                                  /\ r.rec[i].id = cli[p].arg
                                                  /\ \A j \in 1..(i - 1) :
                                                        r.rec[j].id # cli[p].arg],
                               ![p].keys = DeleteFilter(r.rec, cli[p].arg)]
    /\ UNCHANGED <<blob, storage_secret, keys_by_secret, keys_by_id, now, phase, resp>>

\* CLI.create, line 128, and CLI.delete, line 176, of p: save_keys, and the
\* operation returns.
AdminSave(p, s3) ==
    /\ cli[p].pc = "save"
    /\ IF s3 = "ok"
       THEN /\ blob' = SaveToS3(cli[p].keys, DeriveFernet(NoSecret))
            /\ cli' = [cli EXCEPT ![p].pc = "done", ![p].out = "ok"]
       ELSE /\ blob' = blob
            /\ cli' = AdminFails(p)
    /\ UNCHANGED <<storage_secret, keys_by_secret, keys_by_id, now, phase, resp>>

NextTwoAdmins ==
    \/ \E p \in Admins, cmd \in {"create", "delete"}, arg \in Names \cup LegacyIds :
          AdminStart(p, cmd, arg)
    \/ \E p \in Admins, s3 \in S3Outcomes : AdminLoad(p, s3)
    \/ \E p \in Admins, s3 \in S3Outcomes : AdminSave(p, s3)

SpecTwoAdmins == InitTwoAdmins /\ [][NextTwoAdmins]_vars

----------------------------------------------------------------------------
(* Claims *)

\* expires_at names an instant (for a text without offset: read as UTC)
\* strictly before t_now.
StrictlyPast(expires_at, t_now) == IsTimestamp(expires_at.form) /\ expires_at.t < t_now
\* expires_at carries an offset or a Z and is strictly before t_now.
AwarePast(expires_at, t_now) ==
    expires_at.form \in {"zulu", "offset"} /\ expires_at.t < t_now

PairwiseDistinct(keys) ==
    \A i, j \in DOMAIN keys :
        i # j => keys[i].id # keys[j].id /\ keys[i].secret # keys[j].secret

\* C1: once load_from_s3 has succeeded on a blob whose keys have pairwise
\* distinct ids and pairwise distinct secrets, get_by_id(R.id) returns R for
\* every record R of the list, and get_by_secret(R.secret) returns R unless R
\* is expired.
C1_LoadedRecordsAreFound ==
    (resp.op = "load_from_s3" /\ resp.outcome = "ok" /\ blob.exists
        /\ PairwiseDistinct(blob.body.keys))
    => \A i \in DOMAIN blob.body.keys :
          LET R == blob.body.keys[i] IN
          /\ GetById(keys_by_id, R.id) = Found(R)
          /\ ~StrictlyPast(R.expires_at, now)
                => GetBySecret(keys_by_secret, R.secret, now) = Found(R)

C3_UnexpiredIsReturned ==
    \A secret \in DOMAIN keys_by_secret :
        LET e == keys_by_secret[secret].expires_at IN
        (e.form \in {"absent", "null"} \/ (IsTimestamp(e.form) /\ e.t > now))
            => GetBySecret(keys_by_secret, secret, now) = Found(keys_by_secret[secret])

\* C4: get_by_secret never raises, whatever expires_at holds, and a value that
\* cannot be evaluated as an expiry (anything but a timestamp with an offset or
\* a Z) is treated as no expiry: the record is returned.
C4_LookupNeverRaises ==
    \A secret \in DOMAIN keys_by_secret :
        LET out == GetBySecret(keys_by_secret, secret, now) IN
        /\ out.kind # "raise"
        /\ keys_by_secret[secret].expires_at.form \notin {"zulu", "offset"}
              => out = Found(keys_by_secret[secret])

\* C5: for every secret that no record of the snapshot carries, get_by_secret
\* returns not-found without raising and /verify answers 403 with valid=false.
C5_UnknownSecretIsRefused ==
    /\ \A S \in Secrets :
          (\A k \in DOMAIN keys_by_secret : keys_by_secret[k].secret # S)
             => /\ GetBySecret(keys_by_secret, S, now) = NotFound
                /\ VerifyResponse(keys_by_secret, S, now).status = 403
                /\ VerifyResponse(keys_by_secret, S, now).body.valid = FALSE
    /\ (resp.op = "verify" /\ resp.api_key \notin DOMAIN keys_by_secret)
          => resp.status = 403 /\ resp.body.valid = FALSE

\* C5 witness: a store that holds records has answered /verify for a secret
\* none of them carries.
C5_Witness ==
    /\ keys_by_secret # EmptyDict
    /\ resp.op = "verify" /\ resp.api_key = "s3" /\ resp.status = 403

\* The two indices a load of b that gets through every step publishes.
SnapshotOf(b) ==
    LET r == LoadFromS3(b, "ok", DeriveFernet(storage_secret), EmptyDict, EmptyDict)
    IN  <<r.kbs, r.kbi>>

\* POST /refresh has just been answered 500.
RefreshFailed(r) == r.op = "refresh" /\ r.status = 500

\* C6: a load_from_s3 that fails for any reason other than a missing object
\* leaves keys_by_secret and keys_by_id what they were, and /refresh answers
\* 500.
C6_FailedLoadKeepsSnapshot ==
    [][ /\ \A s3 \in S3Outcomes :
              (ReloadAndAnswer(s3)
                  /\ LoadFromS3(blob, s3, DeriveFernet(storage_secret),
                                keys_by_secret, keys_by_id).outcome # "ok")
                 => resp'.status = 500
        /\ RefreshFailed(resp')
              => (keys_by_secret' = keys_by_secret /\ keys_by_id' = keys_by_id)
      ]_vars

\* C7: while the service answers requests, every step leaves the pair of indices either entirely the snapshot it
\* was or entirely the snapshot of the blob a reload fetched; no step publishes
\* one index of the new snapshot beside the other index of the old.
C7_ReloadIsAllOrNothing ==
    [][ phase' = "serving"
           => \/ (keys_by_secret' = keys_by_secret /\ keys_by_id' = keys_by_id)
              \/ <<keys_by_secret', keys_by_id'>> = SnapshotOf(blob)
      ]_vars

\* The lists a load gets through: no record lacks its secret or its id.
LoadableLists ==
    {keys \in ListsOf(Records, MaxKeys) :
        ~LacksField(keys, "secret") /\ ~LacksField(keys, "id")}

\* C8: in the running service, once every triggered reload has finished
\* (handlers run one at a time, so this is every state), keys_by_secret and keys_by_id
\* are both built from one and the same fetched blob version.
C8_IndicesFromOneVersion ==
    phase = "serving"
       => \E keys \in LoadableLists :
             /\ keys_by_secret = BuildIndex(keys, "secret")
             /\ keys_by_id = BuildIndex(keys, "id")

\* C9: POST /refresh is answered 403, and load_from_s3 is not called, for
\* every request whose direct peer address is not 127.0.0.1/localhost and
\* whose first X-Forwarded-For entry is not a loopback address, the header
\* being absent included.
C9_RefreshOnlyFromLoopback ==
    [][ \A client_host \in Hosts, header \in ForwardedHeaders :
           (/\ Refresh(client_host, header)
            /\ client_host \notin {"127.0.0.1", "localhost"}
            /\ ForwardedFor(header) \notin {"127.0.0.1", "localhost"})
           => (resp'.status = 403 /\ ~resp'.fetched)
      ]_vars

\* C10: a POST /refresh answered 403 leaves keys_by_secret and keys_by_id
\* unchanged and fetches nothing from durable storage.
C10_RejectedRefreshChangesNothing ==
    [][ (resp'.op = "refresh" /\ resp'.status = 403)
           => /\ keys_by_secret' = keys_by_secret
              /\ keys_by_id' = keys_by_id
              /\ ~resp'.fetched
      ]_vars

\* C10 witness: a refresh was answered 403 while the store held records and
\* the bucket held a blob whose load would have replaced them.
C10_Witness ==
    /\ resp.op = "refresh" /\ resp.status = 403
    /\ keys_by_secret # EmptyDict
    /\ SnapshotOf(blob) # <<keys_by_secret, keys_by_id>>
    /\ LoadFromS3(blob, "ok", DeriveFernet(storage_secret),
                  keys_by_secret, keys_by_id).outcome = "ok"

\* C11: a load_from_s3 whose get_object answers NoSuchKey raises nothing,
\* returns 0 and leaves both indices empty, whatever they held before: at
\* startup the service comes up with an empty store, and /refresh answers 200
\* with keys_loaded = 0.
C11_MissingBlobLoadsEmpty ==
    [][ ~blob.exists
          => /\ (\E s3 \in S3Outcomes : Startup(s3)) /\ resp'.outcome # "ClientError"
                => /\ resp'.outcome = "ok" /\ resp'.count = 0
                   /\ keys_by_secret' = EmptyDict /\ keys_by_id' = EmptyDict
             /\ ReloadAndAnswer("ok")
                => /\ resp'.status = 200 /\ resp'.body.keys_loaded = 0
                   /\ keys_by_secret' = EmptyDict /\ keys_by_id' = EmptyDict
      ]_vars

\* C11 witness: the object is gone from the bucket and /refresh has answered
\* 200 with no key loaded.
C11_Witness ==
    /\ ~blob.exists
    /\ resp.op = "refresh" /\ resp.status = 200 /\ resp.body.keys_loaded = 0
    /\ keys_by_secret = EmptyDict /\ keys_by_id = EmptyDict

\* The body of a 200 answer of /verify for record R.
VerifiedBody(R) ==
    [valid |-> TRUE, key_id |-> R.id, name |-> R.name,
     metadata |-> IF R.metadata = Absent THEN "{}" ELSE R.metadata]

\* C12: in the running service, /verify with the secret of a record of the
\* snapshot that is not expired answers 200 with valid=true and the record's id, name and metadata
\* ({} for a record that carries none).
C12_ValidKeyIsVerified ==
    \A S \in DOMAIN keys_by_secret :
        LET R == keys_by_secret[S] IN
        (phase = "serving" /\ ~StrictlyPast(R.expires_at, now))
           => /\ VerifyResponse(keys_by_secret, S, now).status = 200
              /\ VerifyResponse(keys_by_secret, S, now).body = VerifiedBody(R)

\* The secret index kbs of a run in which no record carries secret S.
Without(kbs, S) == [k \in DOMAIN kbs \ {S} |-> kbs[k]]

\* C13: in the running service, /verify with a secret whose record is expired
\* is answered exactly as the same request is in a run whose index does not
\* hold that secret: status 403 and the same body.
C13_ExpiredLooksUnknown ==
    \A S \in DOMAIN keys_by_secret :
        (phase = "serving" /\ StrictlyPast(keys_by_secret[S].expires_at, now))
           => /\ VerifyResponse(keys_by_secret, S, now).status = 403
              /\ VerifyResponse(keys_by_secret, S, now)
                    = VerifyResponse(Without(keys_by_secret, S), S, now)

\* C14 as stated: with a storage secret, _encrypt_data(d) begins with the
\* header and _decrypt_data gives d back; without one, _encrypt_data(d) is d
\* and carries no header, for every byte string d.
C14_AsStated ==
    LET F == DeriveFernet(storage_secret)
        out == EncryptData(blob, F) IN
    /\ storage_secret # NoSecret
          => out.encrypted /\ DecryptData(out, F) = Found(blob)
    /\ storage_secret = NoSecret => out = blob /\ ~out.encrypted

\* C14: with a storage secret, _encrypt_data(d) begins with the header and
\* _decrypt_data(_encrypt_data(d)) is d, for every byte string d; without one,
\* _encrypt_data(d) is d, so it begins with the header exactly when d does.
C14_EncryptRoundTrip ==
    LET F == DeriveFernet(storage_secret)
        out == EncryptData(blob, F) IN
    /\ storage_secret # NoSecret
          => out.encrypted /\ DecryptData(out, F) = Found(blob)
    /\ storage_secret = NoSecret
          => out = blob /\ (out.encrypted <=> blob.encrypted)
    /\ resp.op = "_encrypt_data"
          => \/ resp.result.rec = resp.arg
             \/ (resp.result.rec.encrypted /\ resp.result.rec.body = resp.arg)

\* C14 witness: a store with a storage secret has decrypted what it encrypted
\* and holds the bytes it started from.
C14_Witness ==
    /\ storage_secret # NoSecret
    /\ resp.op = "_decrypt_data"
    /\ resp.arg = EncryptData(blob, DeriveFernet(storage_secret))
    /\ resp.result = Found(blob)

\* C15: bytes that do not begin with the header pass through _decrypt_data
\* unchanged whether or not a storage secret is configured, and load_from_s3
\* of such a blob ends the same way, with the same two indices, in a store
\* with a storage secret as in a store without.
C15_PlaintextLoadsUnderAnyKey ==
    (blob.exists /\ ~blob.encrypted)
       => \A secret \in StorageSecrets, s3 \in S3Outcomes :
             /\ DecryptData(blob, DeriveFernet(secret)) = Found(blob)
             /\ LoadFromS3(blob, s3, DeriveFernet(secret), keys_by_secret, keys_by_id)
                   = LoadFromS3(blob, s3, NoFernet, keys_by_secret, keys_by_id)

\* C15 witness: the service runs with a storage secret, the bucket holds an
\* unencrypted list of records, and /refresh has loaded exactly that list.
C15_Witness ==
    /\ storage_secret # NoSecret
    /\ blob.exists /\ ~blob.encrypted
    /\ DocOf(blob).json = "keys" /\ DocOf(blob).keys # << >>
    /\ resp.op = "refresh" /\ resp.status = 200
    /\ keys_by_secret = BuildIndex(DocOf(blob).keys, "secret")
    /\ keys_by_id = BuildIndex(DocOf(blob).keys, "id")

\* C16: _decrypt_data of bytes that begin with the header returns bytes only to
\* a store whose storage secret is the one the token was made with; a store
\* without storage secret gets the "no STORAGE_SECRET provided" error, a store
\* with another secret the "invalid STORAGE_SECRET" error, and the two
\* messages differ.
C16_WrongKeyIsAnError ==
    LET F == DeriveFernet(storage_secret)
        r == DecryptData(blob, F)
        no_key == Raised("ValueError: Data is encrypted but no STORAGE_SECRET provided")
        bad_key == Raised("ValueError: Failed to decrypt data - invalid STORAGE_SECRET")
    IN  /\ no_key # bad_key
        /\ blob.encrypted
              => /\ r.kind = "record" => (F # NoFernet /\ F = blob.enc_key)
                 /\ F = NoFernet => r = no_key
                 /\ (F # NoFernet /\ F # blob.enc_key) => r = bad_key
        /\ (resp.op = "_decrypt_data" /\ resp.arg.encrypted
                /\ resp.result.kind = "record")
              => resp.arg.enc_key # NoFernet

\* C16 witness: bytes encrypted under the secret "A" were handed to a store
\* constructed with "B", and _decrypt_data raised.
C16_Witness ==
    /\ storage_secret = "B"
    /\ resp.op = "_decrypt_data"
    /\ resp.arg.encrypted /\ resp.arg.enc_key = DeriveFernet("A")
    /\ resp.result.kind = "raise"

\* C17: a load_from_s3 that follows save_to_s3(records) on a store with the
\* same storage secret succeeds and leaves both indices built from exactly
\* `records` (a list of records that each carry an id and a secret), whatever
\* the object held before the save and whatever the indices held before the
\* load: every record the store then holds is one of `records`.
C17_SaveReplacesTheDocument ==
    [][ (resp.op = "save_to_s3" /\ resp.outcome = "ok" /\ CallLoadFromS3("ok"))
           => /\ resp'.outcome = "ok"
              /\ keys_by_secret' = BuildIndex(resp.arg, "secret")
              /\ keys_by_id' = BuildIndex(resp.arg, "id")
              /\ \A key_id \in DOMAIN keys_by_id' :
                    \E i \in DOMAIN resp.arg : resp.arg[i] = keys_by_id'[key_id]
      ]_vars

\* C17 witness: a one-record list was saved under a storage secret and loaded
\* back, and the store holds that record alone.
C17_Witness ==
    /\ storage_secret # NoSecret
    /\ blob = SaveToS3(<<RecB>>, DeriveFernet(storage_secret))
    /\ resp.op = "load_from_s3" /\ resp.outcome = "ok" /\ resp.count = 1
    /\ DOMAIN keys_by_id = {"k2"}

\* The record of the n-th key the administrator creates.
Created(n) == NewKey(n, "ci-bot", "{team:infra}")
\* The list the object holds, as a command with the right storage secret reads it.
HeldKeys(b) == IF b.exists /\ DocOf(b).json = "keys" THEN DocOf(b).keys ELSE << >>
InBlob(n) == \E i \in DOMAIN HeldKeys(blob) : HeldKeys(blob)[i] = Created(n)
\* This step is a load of the service that succeeded: /refresh answered 200,
\* or the service came up.
ReloadStep ==
    \/ ReloadAndAnswer("ok") /\ resp'.status = 200
    \/ phase = "init" /\ phase' = "serving"
\* The command that has just ended with exit code 0 is `cmd` on record K.
Completed(cmd, K) ==
    cli.pc = "done" /\ cli.cmd = cmd /\ cli.out = "ok" /\ cli.key = K
\* Key n was generated, the object does not hold it, and no command is about
\* to write it.
Revoked(n) ==
    /\ n <= cli.made
    /\ ~InBlob(n)
    /\ ~(cli.pc = "save" /\ \E i \in DOMAIN cli.keys : cli.keys[i] = Created(n))

RefreshFailures == {"ConnectionError", "Timeout", "403", "500"}

\* C19: a create or delete whose post to /refresh fails (no connection, a
\* timeout, a 403 or 500 answer) still ends with exit code 0, the object holds
\* the list the command wrote, and the failure shows as a warning only: the
\* command warns whenever its own refresh call fails and whenever the call
\* inside CLI.create / CLI.delete raises.
C19_RefreshIsBestEffort ==
    /\ (cli.pc \in {"post1", "post2", "done"} /\ cli.out # "error"
           /\ cli.cmd \in {"create", "delete"} /\ cli.out # "cancelled")
          => blob = SaveToS3(cli.keys, DeriveFernet(cli.secret))
    /\ (cli.pc = "done" /\ (cli.p1 \in RefreshFailures \/ cli.p2 \in RefreshFailures))
          => /\ cli.out = "ok"
             /\ cli.p2 \in RefreshFailures => cli.warned
             /\ cli.p1 \in {"ConnectionError", "Timeout"} => cli.warned

\* C19 witness: a delete has ended with exit code 0 and a warning after both
\* its posts to /refresh failed, the second with a 500 answer, and the service
\* still holds the deleted key.
C19_Witness ==
    /\ Completed("delete", Created(1))
    /\ cli.p1 = "ConnectionError" /\ cli.p2 = "500" /\ cli.warned
    /\ ~InBlob(1)
    /\ "s1" \in DOMAIN keys_by_secret

\* The step is the write of a command (save_keys has returned).
CliWrites == cli.pc = "save" /\ cli'.pc # "save" /\ cli'.out # "error"
\* How often record r stands in the list.
Occurrences(keys, r) == Cardinality({i \in DOMAIN keys : keys[i] = r})
DistinctIds(keys) == \A i, j \in DOMAIN keys : keys[i].id = keys[j].id => i = j

----------------------------------------------------------------------------
\* Answers of the three endpoints.
EndpointOps == {"verify", "refresh", "health"}

\* C21: an endpoint answers only while the service is serving; the service
\* comes to serve only by a startup whose load_from_s3 returned (with both
\* indices empty when the object is missing); a startup whose load raised
\* aborts, and after an abort nothing is answered any more.
C21_ServesOnlyAfterInitialLoad ==
    [][ /\ (resp' # resp /\ resp'.op \in EndpointOps)
            => (phase = "serving" /\ phase' = "serving")
        /\ (phase # "serving" /\ phase' = "serving")
            => /\ phase = "init"
               /\ resp'.op = "startup" /\ resp'.outcome = "ok"
               /\ ~blob.exists
                     => (keys_by_secret' = EmptyDict /\ keys_by_id' = EmptyDict)
        /\ (phase = "init" /\ resp' # resp /\ resp'.op = "startup" /\ resp'.outcome # "ok")
            => phase' = "aborted"
        /\ phase = "aborted" => (phase' = "aborted" /\ resp' = resp)
      ]_vars

\* C21 witness: the object in the bucket could not be decrypted at startup;
\* the service aborted.
C21_Witness ==
    /\ phase = "aborted"
    /\ resp.op = "startup" /\ resp.outcome = "ValueError"
    /\ blob.exists /\ blob.encrypted

----------------------------------------------------------------------------
\* Answers of the operations that read.
ReadOps == {"verify", "health", "get_by_secret", "get_by_id", "get_all_keys"}

\* C22: a step in which /verify, /health, get_by_secret, get_by_id or
\* get_all_keys answers leaves the object in the bucket and both indices as
\* they were.
C22_ReadsChangeNothing ==
    [][ (resp'.op \in ReadOps /\ (resp.op # resp'.op \/ resp' # resp))
          => UNCHANGED <<blob, keys_by_secret, keys_by_id>> ]_vars

\* C22 witness: /verify has answered 200 from a snapshot that is no longer
\* what the object in the bucket would load as.
C22_Witness ==
    /\ resp.op = "verify" /\ resp.status = 200
    /\ phase = "serving"
    /\ blob.exists
    /\ <<keys_by_secret, keys_by_id>> # SnapshotOf(blob)
    /\ SnapshotOf(blob)[1] # EmptyDict

----------------------------------------------------------------------------
C24_HealthReportsCount ==
    resp.op = "health"
        => /\ resp.status = 200
           /\ resp.body.status = "ok"
           /\ "keys_count" \in DOMAIN resp.body
           /\ resp.body.keys_count = Cardinality(DOMAIN keys_by_secret)

----------------------------------------------------------------------------
\* p is a prefix of text and shorter than it.
ProperPrefix(p, text) == Len(p) < Len(text) /\ SubSeq(text, 1, Len(p)) = p

\* C25: the log entry of a failed /verify holds of the presented key at most a
\* proper prefix (or the placeholder) and never the whole key; the log entry
\* of a successful /verify holds the id and the name of the key and not its
\* secret.
C25_LogNeverHoldsTheSecret ==
    resp.op = "verify"
        => /\ resp.status = 403
                => /\ resp.log.event = "verification_failed"
                   /\ resp.log.secret_prefix # resp.api_key
                   /\ \/ resp.log.secret_prefix = "***"
                      \/ ProperPrefix(resp.log.secret_prefix, resp.api_key)
           /\ resp.status = 200
                => /\ resp.log.event = "verification_success"
                   /\ resp.log.key_id = resp.body.key_id
                   /\ resp.log.key_name = resp.body.name
                   /\ resp.api_key \notin {resp.log.key_id, resp.log.key_name}

----------------------------------------------------------------------------
\* The pairs generated so far.
Generated == {GenerateKeyPair(n) : n \in 1..cli.made}

\* C26: from a missing object on, after any sequence of create and delete
\* commands the list in the object has pairwise distinct ids and pairwise
\* distinct secrets, and no id is a secret; every pair generated has an id
\* different from its secret and from the ids and secrets of the other pairs,
\* and every record of the list carries one of these pairs.
C26_IdsAndSecretsUnique ==
    LET keys == HeldKeys(blob) IN
    /\ PairwiseDistinct(keys)
    /\ \A i, j \in DOMAIN keys : keys[i].id # keys[j].secret
    /\ \A i \in DOMAIN keys : <<keys[i].id, keys[i].secret>> \in Generated
    /\ Cardinality(Generated) = cli.made
    /\ \A g, h \in Generated :
          /\ g[1] # h[2]
          /\ g # h => (g[1] # h[1] /\ g[2] # h[2])

\* C26 witness: two keys were created, the first was deleted, and the object
\* holds the second alone.
C26_Witness ==
    /\ cli.made = 2
    /\ Completed("delete", Created(1))
    /\ HeldKeys(blob) = <<Created(2)>>

----------------------------------------------------------------------------
\* The step is a load_from_s3: a startup, or a /refresh that was let in.
LoadStep ==
    \/ resp'.op = "startup"
    \/ resp'.op = "refresh" /\ resp'.fetched
\* The step is a load_from_s3 that returned.
SuccessfulLoad ==
    \/ resp'.op = "startup" /\ resp'.outcome = "ok"
    \/ resp'.op = "refresh" /\ resp'.status = 200

\* C27: the two indices change only in a step that is a load_from_s3 (startup,
\* or a /refresh that was let in); a step that writes the object changes
\* neither index; and while the service serves, what /verify answers for a key
\* at a given instant changes only in a step that is a successful load.
C27_SnapshotChangesOnlyOnLoad ==
    [][ /\ <<keys_by_secret, keys_by_id>>' # <<keys_by_secret, keys_by_id>>
            => LoadStep
        /\ blob' # blob
            => UNCHANGED <<keys_by_secret, keys_by_id>>
        /\ (/\ phase = "serving"
            /\ \E api_key \in Secrets :
                  VerifyResponse(keys_by_secret', api_key, now)
                      # VerifyResponse(keys_by_secret, api_key, now))
            => SuccessfulLoad
      ]_vars

----------------------------------------------------------------------------
\* The secrets in the list of b, each once.
DistinctSecrets(b) == {HeldKeys(b)[i].secret : i \in DOMAIN HeldKeys(b)}

\* C28: a load_from_s3 that returns gives the number of distinct secrets in the
\* list it read, which is the size of the secret index it leaves, whether or
\* not the records have expired; a startup logs that count and /refresh
\* reports it as keys_loaded.
C28_CountIsDistinctSecrets ==
    [][ /\ ((\E s3 \in S3Outcomes : Startup(s3)) /\ resp'.outcome = "ok")
            => /\ resp'.count = Cardinality(DistinctSecrets(blob))
               /\ resp'.count = Cardinality(DOMAIN keys_by_secret')
        /\ (ReloadAndAnswer("ok") /\ resp'.status = 200)
            => /\ resp'.body.keys_loaded = Cardinality(DistinctSecrets(blob))
               /\ resp'.body.keys_loaded = Cardinality(DOMAIN keys_by_secret')
      ]_vars

\* C28 witness: /refresh has loaded a list of two records with one secret, the
\* record it kept for that secret expired, and it reported one key.
C28_Witness ==
    /\ resp.op = "refresh" /\ resp.status = 200
    /\ resp.body.keys_loaded = 1
    /\ Len(HeldKeys(blob)) = 2
    /\ keys_by_secret = SnapshotOf(blob)[1]
    /\ \E secret \in DOMAIN keys_by_secret :
          AwarePast(keys_by_secret[secret].expires_at, now)

----------------------------------------------------------------------------
\* The command stands before its write.
BeforeWrite == cli.pc \in {"list", "load"}
\* The command's storage secret does not open the object.
CannotDecrypt == blob.exists /\ DecryptData(blob, DeriveFernet(cli.secret)).kind = "raise"
\* The object holds no record with the id the delete names.
TargetMissing ==
    cli.cmd = "delete" /\ \A i \in DOMAIN HeldKeys(blob) : HeldKeys(blob)[i].id # cli.arg

\* C29: no step of a create or delete before its write changes the object; a
\* command whose storage secret does not open the object, or whose delete
\* names an id the object does not hold, ends there with an error; and a
\* command that ends with an error leaves the object as it was.
C29_FailureBeforeWriteLeavesBlob ==
    [][ /\ BeforeWrite => blob' = blob
        /\ (BeforeWrite /\ cli' # cli /\ (CannotDecrypt \/ TargetMissing))
            => (cli'.pc = "done" /\ cli'.out = "error")
        /\ (cli' # cli /\ cli'.out = "error") => blob' = blob
      ]_vars

\* C29 witness: a create without storage secret has ended with an error on an
\* encrypted object, which still holds its two records.
C29_Witness ==
    /\ cli.pc = "done" /\ cli.cmd = "create" /\ cli.out = "error"
    /\ cli.secret = NoSecret
    /\ blob.encrypted
    /\ HeldKeys(blob) = <<LegA, LegC>>

----------------------------------------------------------------------------
\* Both operations have returned, and they are two creates or a create and a
\* delete.
BothCompleted ==
    /\ \A p \in Admins : cli[p].pc = "done" /\ cli[p].out = "ok"
    /\ \E p \in Admins : cli[p].cmd = "create"
\* The object shows what p did: the record p created is in it, the id p deleted
\* is not.
EffectIn(p, keys) ==
    IF cli[p].cmd = "create"
    THEN \E i \in DOMAIN keys : keys[i] = cli[p].key
    ELSE \A i \in DOMAIN keys : keys[i].id # cli[p].arg
\* The list p loaded with p's change made to it.
ChangeOf(p) ==
    IF cli[p].cmd = "create" THEN cli[p].read \o <<cli[p].key>>
    ELSE SelectSeq(cli[p].read, LAMBDA k : k.id # cli[p].arg)

\* C30 as stated: once two concurrent operations (two creates, or a create and
\* a delete) have both completed, the object shows the effect of both.
C30_AsStated ==
    BothCompleted => \A p \in Admins : EffectIn(p, HeldKeys(blob))

\* C30: once both have completed, the object holds the list one of the two
\* wrote, which is the list that one loaded with its own change made to it;
\* it shows the effect of its writer, and it shows the effect of the other
\* exactly when the writer had loaded what the other wrote.
C30_LastSaveWins ==
    BothCompleted
        => \E p \in Admins :
              /\ HeldKeys(blob) = ChangeOf(p)
              /\ EffectIn(p, HeldKeys(blob))
              /\ \A q \in Admins \ {p} :
                    EffectIn(q, HeldKeys(blob)) <=> cli[p].read = ChangeOf(q)

\* C30 witness: two creates have both loaded the same two records and both
\* completed; the object holds these and one created key.
C30_Witness ==
    /\ BothCompleted
    /\ \A p \in Admins : cli[p].cmd = "create" /\ cli[p].read = <<LegA, LegC>>
    /\ Len(HeldKeys(blob)) = 3

====
